---- MODULE Spec2Model ----
(***************************************************************************)
(* RaycastVolumeRenderer (plugins/mmstd_volume/src/RaycastVolumeRenderer   *)
(* .cpp): the per-frame raycasting pipeline as a state machine.            *)
(*                                                                         *)
(* One Render call is a sequence of steps, in the order of the code:       *)
(*   Render_Chain      lines 226-250  chained renderer, snapshot fbo       *)
(*   Render_Targets    lines 252-288  render/normal/depth targets          *)
(*   updateVolumeData  lines 584-683  one pass of the fetch loop, and on   *)
(*                                    leaving the loop the rest of the     *)
(*                                    function                             *)
(*   Render_Raycast    lines 292-452  program, uniforms, bindings          *)
(*   Render_Dispatch   lines 454-503  dispatch, unbind, barrier, readback  *)
(*   Render_Composite  lines 505-555  save state, set state, bind          *)
(*   Render_Draw       lines 557-581  draw, unbind, restore, return true   *)
(* The renderer is single threaded: while pc # "idle" exactly one step is  *)
(* enabled.  What the host, the data source, the chained renderer and the  *)
(* transfer function provider do is drawn from the sets of a domain        *)
(* record D (see the Domains section).                                     *)
(***************************************************************************)
EXTENDS Integers, Sequences, FiniteSets, TLC

VARIABLES
    \* ---- parameter slots and caller slots (set by the host between frames)
    m_mode,              \* m_mode enum parameter
    ci,                  \* m_renderer_callerSlot connected (ci != nullptr)
    cd_connected,        \* m_volumetricData_callerSlot connected (cd != nullptr)
    paramOverride,       \* paramOverride, paramMinOverride, paramMaxOverride: [on, min, max]
    \* ---- the call in progress
    pc,                  \* position inside Render
    ret,                 \* what the last Render call returned: "none", "true", "false"
    viewport,            \* cr.GetViewport(): <<width, height>>
    frameID,             \* static_cast<unsigned>(cr.Time())
    cd_FrameID,          \* cd->FrameID(), the frame the data source reports
    compute_shdr,        \* the compute program picked by mode
    saved,               \* state_depth_test, state_blend, state_blend_* locals
    \* ---- renderer members
    fbo,                 \* snapshot framebuffer: [valid, enabled, size]
    m_render_target,     \* <<w, h>> of the texture, or Null
    m_normal_target,
    m_depth_target,
    m_volume_datahash,
    m_frame_id,
    m_volume_origin,
    m_volume_extents,
    m_volume_resolution,
    valRange,
    m_volume_texture,    \* [format, hash, frame] of the uploaded volume, or Null
    tf_texture,          \* GLuint handle of the transfer function texture
    \* ---- OpenGL context state
    gl_depth_test,       \* glIsEnabled(GL_DEPTH_TEST)
    gl_blend,            \* glIsEnabled(GL_BLEND)
    gl_blend_func,       \* [src_rgb, dst_rgb, src_alpha, dst_alpha]
    gl_tex,              \* texture unit -> [t1D, t2D, t3D] bound texture names
    gl_image,            \* image unit -> bound texture name
    gl_program,          \* program in use
    uniforms,            \* names of the uniforms set on compute_shdr this frame
    fbo_uniforms,        \* names of the uniforms set on fbo_shdr this frame
    use_depth_tx,        \* value given to the uniform use_depth_tx this frame
    halfVoxelSize,       \* value given to the uniform halfVoxelSize this frame
    voxelSize,           \* value given to the uniform voxelSize this frame
    valRange_uniform,    \* value given to the uniform valRange of compute_shdr this frame
    groups,              \* group counts of the compute dispatch of this frame
    gl_draw_buffers,     \* draw buffers of the framebuffer the host draws to
    rt_pixels,           \* texels of m_render_target the readback has read
    rndr,                \* rndr_min, rndr_max locals
    gl_log,              \* GL commands of this frame that run or synchronise a pass
    \* ---- observations of the call in progress
    gl_entry,            \* blend/depth state when Render was entered
    targets_made,        \* Render_Targets created the three targets this frame
    uv,                  \* the updateVolumeData call that just returned
    tf_call,             \* the updateTransferFunction call that just returned
    ext                  \* the GetExtents call that just returned

paramVars  == <<m_mode, ci, cd_connected, paramOverride>>
callVars   == <<viewport, frameID, compute_shdr, saved>>
targetVars == <<m_render_target, m_normal_target, m_depth_target>>
volumeVars == <<m_volume_datahash, m_frame_id, m_volume_origin, m_volume_extents,
                m_volume_resolution, valRange, m_volume_texture>>
blendVars  == <<gl_depth_test, gl_blend, gl_blend_func>>
bindVars   == <<gl_tex, gl_image, gl_program, uniforms, fbo_uniforms>>
obsVars    == <<gl_entry, targets_made>>
valueVars  == <<use_depth_tx, halfVoxelSize, voxelSize, valRange_uniform>>
readVars   == <<rt_pixels, rndr>>

vars == <<m_mode, ci, cd_connected, paramOverride, groups, gl_draw_buffers,
          valRange_uniform, pc, ret, viewport, frameID, cd_FrameID,
          compute_shdr, saved, fbo, m_render_target, m_normal_target,
          m_depth_target, m_volume_datahash, m_frame_id, m_volume_origin,
          m_volume_extents, m_volume_resolution, valRange, m_volume_texture,
          tf_texture, gl_depth_test, gl_blend, gl_blend_func, gl_tex, gl_image,
          gl_program, uniforms, fbo_uniforms, use_depth_tx, halfVoxelSize, voxelSize,
          rt_pixels, rndr, gl_log, gl_entry, targets_made, uv, tf_call, ext>>

----------------------------------------------------------------------------
(* Bounds of the model *)

MaxHash  == 2      \* data hashes 1..MaxHash
MaxFrame == 1      \* requested frames 0..MaxFrame
MaxDim   == 2      \* viewport width and height 1..MaxDim
MaxTf    == 2      \* transfer function texture handles 1..MaxTf
MaxGeo   == 2      \* volume geometries 1..MaxGeo
MaxPixels == 3     \* texels of a render target whose content varies: 1..MaxPixels
MaxAlpha == 2      \* alpha values of a texel, in units of 1/255: 0..MaxAlpha
MaxGroups == 2     \* render targets of up to MaxGroups full groups and one texel

----------------------------------------------------------------------------
(* Values *)

Null == [null |-> TRUE]

\* enum GridType of the volumetric data call, in declaration order
NONE        == 0
CARTESIAN   == 1
RECTILINEAR == 2
TETRAHEDRAL == 3
GridTypes   == {NONE, CARTESIAN, RECTILINEAR, TETRAHEDRAL}

\* enum ScalarType of the volumetric data call
ScalarTypes == {"UNKNOWN", "SIGNED_INTEGER", "UNSIGNED_INTEGER", "FLOATING_POINT", "BITS"}
ScalarLengths == {1, 2, 4}

\* the values m_volume_datahash / m_frame_id hold before the first upload
NoHash  == -1
NoFrame == -1

\* GL texture names.  Name 0 is "no texture".
NoTex == [kind |-> "none", id |-> 0]
TexName(kind) == [kind |-> kind, id |-> 0]
TfName(handle) == IF handle = 0 THEN NoTex ELSE [kind |-> "tf", id |-> handle]

Units      == 0..3
ImageUnits == 0..2
NoBinding  == [t1D |-> NoTex, t2D |-> NoTex, t3D |-> NoTex]

BlendFunc(sr, dr, sa, da) == [src_rgb |-> sr, dst_rgb |-> dr, src_alpha |-> sa, dst_alpha |-> da]

Size(w, h) == [width |-> w, height |-> h]

\* the value of a uniform no glUniform call has been made for in this frame
NotSet == -1

\* the float a / b of lines 341-346: a ratio, which is finite iff b is not 0
\* (a division by 0.0f gives an infinity or a NaN)
FloatDiv(a, b) == [set |-> TRUE, num |-> a, den |-> b]
NoFloat == [set |-> FALSE, num |-> 0, den |-> 1]
IsFinite(q) == q.den # 0

\* std::max of lines 343-345
Max3(v) == IF v[1] >= v[2] /\ v[1] >= v[3] THEN v[1]
           ELSE IF v[2] >= v[3] THEN v[2] ELSE v[3]

\* lines 484-485: numeric_limits<float>::max() and lowest(), in the unit of the
\* texel values (1/255); a texel of the GL_RGBA8 target is at most 255
FloatMax    == 2147483647
FloatLowest == -2147483647

\* lines 112-119: the override parameters after construction
NoOverride == [on |-> FALSE, min |-> 0, max |-> 1]

\* the uniform valRange before glUniform2fv is called for it
NoValRange == <<>>

\* line 456: the edge of a work group, in texels
LocalSize == 8
NoGroups == <<0, 0, 0>>

\* the draw buffers of the host's framebuffer, and those of lines 545-546
HostDrawBuffers == <<"GL_BACK">>
DualDrawBuffers == <<"GL_COLOR_ATTACHMENT0_EXT", "GL_COLOR_ATTACHMENT1_EXT">>

\* a texel of the render target: its alpha and whether the ray missed the volume
Texel(alpha, background) == [alpha |-> alpha, background |-> background]

----------------------------------------------------------------------------
(* Domains: what the renderer's collaborators may do in one frame.         *)
(* A domain record D gives: modes, chains (is a chained renderer           *)
(* connected), sources (is a data source connected), hosts (the GL state   *)
(* the host left), viewports, frames (requested frame ids), hashes, grids, *)
(* scalars, geos (what the data source reports), tfs (what the transfer    *)
(* function provider does).                                                *)

Modes == 0..3          \* 0 Integration, 1 Isosurface, 2 Aggregate; 3 has no type pair

HostBlendFuncs ==
    { BlendFunc("GL_ONE", "GL_ZERO", "GL_ONE", "GL_ZERO"),
      BlendFunc("GL_SRC_ALPHA", "GL_ONE_MINUS_SRC_ALPHA", "GL_SRC_ALPHA", "GL_ONE_MINUS_SRC_ALPHA"),
      BlendFunc("GL_SRC_ALPHA", "GL_ONE", "GL_ZERO", "GL_DST_ALPHA") }
HostStates == [blend : BOOLEAN, depth_test : BOOLEAN, func : HostBlendFuncs]
DefaultHost == [blend |-> FALSE, depth_test |-> FALSE,
                func |-> BlendFunc("GL_ONE", "GL_ZERO", "GL_ONE", "GL_ZERO")]

Viewports == {Size(w, h) : w \in 1..MaxDim, h \in 1..MaxDim}
Frames    == 0..MaxFrame
\* the data source may settle on a frame other than the requested one
SourceFrames == 0..(MaxFrame + 1)
Hashes    == 1..MaxHash
Scalars   == [type : ScalarTypes, length : ScalarLengths]
Float32   == [type |-> "FLOATING_POINT", length |-> 4]
Metas     == [grid : GridTypes, scalar : Scalars]
\* one volume the renderer supports, and one of each way of being unsupported
SomeMetas ==
    { [grid |-> CARTESIAN, scalar |-> Float32],
      [grid |-> CARTESIAN, scalar |-> [type |-> "UNSIGNED_INTEGER", length |-> 4]],
      [grid |-> CARTESIAN, scalar |-> [type |-> "UNKNOWN", length |-> 4]],
      [grid |-> NONE, scalar |-> Float32],
      [grid |-> RECTILINEAR, scalar |-> Float32] }
Geos      == 1..MaxGeo
Alphas    == 0..MaxAlpha
Overrides == [on : BOOLEAN, min : {0, 1}, max : {1, MaxGeo + 1}]
GroupDims == 1..(LocalSize * MaxGroups + 1)
NoProvider == [present |-> FALSE, ok |-> FALSE, handle |-> 0]
TfOutcomes == {NoProvider}
              \cup [present : {TRUE}, ok : BOOLEAN, handle : 1..MaxTf]

\* metadata of the volume geometry g as the data source reports it
Origin(g)     == <<g - 1, 0, 0>>
Extents(g)    == <<g, 1, 1>>
Resolution(g) == <<g, g, g>>
MinMax(g)     == <<0, g>>

\* the frame-level pipeline: modes, chaining, host state and the transfer
\* function vary; one viewport, one supported volume
DomFrame ==
    [modes |-> Modes, chains |-> BOOLEAN, sources |-> {TRUE}, hosts |-> HostStates,
     viewports |-> {Size(1, 1)}, frames |-> {0}, srcframes |-> {0}, hashes |-> {1},
     metas |-> {[grid |-> CARTESIAN, scalar |-> Float32]}, geos |-> {MaxGeo},
     tfs |-> TfOutcomes, alphas |-> {1}, backgrounds |-> {FALSE},
     overrides |-> {NoOverride}]

\* the volume cache: the connection, the frame and the identity of the volume vary
DomVolume ==
    [modes |-> {0}, chains |-> {FALSE}, sources |-> BOOLEAN, hosts |-> {DefaultHost},
     viewports |-> {Size(1, 1)}, frames |-> Frames, srcframes |-> SourceFrames,
     hashes |-> Hashes, metas |-> SomeMetas, geos |-> Geos, tfs |-> {NoProvider},
     alphas |-> {1}, backgrounds |-> {FALSE},
     overrides |-> {NoOverride}]

\* the volume format: grid type, scalar type and scalar length vary
DomFormat ==
    [modes |-> {1}, chains |-> {FALSE}, sources |-> {TRUE}, hosts |-> {DefaultHost},
     viewports |-> {Size(1, 1)}, frames |-> {0}, srcframes |-> {0},
     hashes |-> Hashes, metas |-> Metas, geos |-> {MaxGeo}, tfs |-> {NoProvider},
     alphas |-> {1}, backgrounds |-> {FALSE},
     overrides |-> {NoOverride}]

\* the render targets: the viewport varies
DomTargets ==
    [modes |-> {0, 1}, chains |-> {FALSE}, sources |-> {TRUE}, hosts |-> {DefaultHost},
     viewports |-> Viewports, frames |-> {0}, srcframes |-> {0}, hashes |-> {1},
     metas |-> {[grid |-> CARTESIAN, scalar |-> Float32]}, geos |-> {MaxGeo},
     tfs |-> {NoProvider}, alphas |-> {1}, backgrounds |-> {FALSE},
     overrides |-> {NoOverride}]

\* the readback: the size of the render target and what the compute pass wrote vary
DomReadback ==
    [modes |-> {0, 2}, chains |-> {FALSE}, sources |-> {TRUE}, hosts |-> {DefaultHost},
     viewports |-> {Size(w, 1) : w \in 1..MaxPixels}, frames |-> {0}, srcframes |-> {0},
     hashes |-> {1}, metas |-> {[grid |-> CARTESIAN, scalar |-> Float32]},
     geos |-> {MaxGeo}, tfs |-> {NoProvider}, alphas |-> Alphas, backgrounds |-> BOOLEAN,
     overrides |-> {NoOverride}]

\* the value range: the override parameters and the metadata of the volume vary
DomRange ==
    [modes |-> {0}, chains |-> {FALSE}, sources |-> {TRUE}, hosts |-> {DefaultHost},
     viewports |-> {Size(1, 1)}, frames |-> {0}, srcframes |-> {0}, hashes |-> Hashes,
     metas |-> {[grid |-> CARTESIAN, scalar |-> Float32]}, geos |-> Geos,
     tfs |-> {NoProvider}, alphas |-> {1}, backgrounds |-> {FALSE}, overrides |-> Overrides]

\* the dispatch: the size of the viewport varies around the multiples of LocalSize
DomGroups ==
    [modes |-> {1}, chains |-> {FALSE}, sources |-> {TRUE}, hosts |-> {DefaultHost},
     viewports |-> {Size(w, h) : w \in GroupDims, h \in {1, LocalSize, LocalSize + 1}},
     frames |-> {0}, srcframes |-> {0}, hashes |-> {1},
     metas |-> {[grid |-> CARTESIAN, scalar |-> Float32]}, geos |-> {MaxGeo},
     tfs |-> {NoProvider}, alphas |-> {1}, backgrounds |-> {FALSE},
     overrides |-> {NoOverride}]

\* the failures of a frame: the connections, the host state and the volume vary
DomFetch ==
    [modes |-> {1}, chains |-> BOOLEAN, sources |-> BOOLEAN, hosts |-> HostStates,
     viewports |-> {Size(1, 1)}, frames |-> {0}, srcframes |-> {0}, hashes |-> Hashes,
     metas |-> {[grid |-> CARTESIAN, scalar |-> Float32], [grid |-> NONE, scalar |-> Float32]},
     geos |-> {MaxGeo}, tfs |-> {NoProvider}, alphas |-> {1}, backgrounds |-> {FALSE},
     overrides |-> {NoOverride}]

----------------------------------------------------------------------------
(* Initial state: the renderer after construction and create() *)

\* an updateVolumeData call: what it returned, whether it left the fetch loop,
\* whether it created a volume texture, and what the data source reported
UvCall(status, reached, uploaded, hash, frame, grid, scalar) ==
    [status |-> status, reached |-> reached, uploaded |-> uploaded, hash |-> hash,
     frame |-> frame, grid |-> grid, scalar |-> scalar]
NoCall == UvCall("none", FALSE, FALSE, NoHash, NoFrame, NONE, Float32)
NoSaved == [none |-> TRUE]

\* an updateTransferFunction call: what the provider did and what the call returned
TfCall(o, status) == [called |-> TRUE, o |-> o, status |-> status]
NoTfCall == [called |-> FALSE, o |-> NoProvider, status |-> TRUE]

\* a GetExtents call: what it returned and the bounding box it set on the call
ExtCall(status, bbox) == [status |-> status, bbox |-> bbox]
NoExtCall == ExtCall("none", "none")

\* lines 484-485: the range before the scan
NoRange == [min |-> FloatMax, max |-> FloatLowest]

Init ==
    /\ m_mode = 0
    /\ ci = FALSE
    /\ cd_connected = TRUE
    /\ paramOverride = NoOverride
    /\ pc = "idle"
    /\ ret = "none"
    /\ viewport = Size(1, 1)
    /\ frameID = 0
    /\ cd_FrameID = 0
    /\ compute_shdr = "none"
    /\ saved = NoSaved
    /\ fbo = [valid |-> FALSE, enabled |-> FALSE, size |-> Null]
    /\ m_render_target = Null
    /\ m_normal_target = Null
    /\ m_depth_target = Null
    /\ m_volume_datahash = NoHash
    /\ m_frame_id = NoFrame
    /\ m_volume_origin = <<0, 0, 0>>
    /\ m_volume_extents = <<0, 0, 0>>
    /\ m_volume_resolution = <<0, 0, 0>>
    /\ valRange = <<0, 0>>
    /\ m_volume_texture = Null
    /\ tf_texture = 0
    /\ gl_depth_test = DefaultHost.depth_test
    /\ gl_blend = DefaultHost.blend
    /\ gl_blend_func = DefaultHost.func
    /\ gl_tex = [u \in Units |-> NoBinding]
    /\ gl_image = [u \in ImageUnits |-> NoTex]
    /\ gl_program = "none"
    /\ uniforms = {}
    /\ fbo_uniforms = {}
    /\ use_depth_tx = NotSet
    /\ halfVoxelSize = <<NoFloat, NoFloat, NoFloat>>
    /\ voxelSize = NoFloat
    /\ valRange_uniform = NoValRange
    /\ groups = NoGroups
    /\ gl_draw_buffers = HostDrawBuffers
    /\ rt_pixels = <<>>
    /\ rndr = NoRange
    /\ gl_log = <<>>
    /\ gl_entry = DefaultHost
    /\ targets_made = FALSE
    /\ uv = NoCall
    /\ tf_call = NoTfCall
    /\ ext = NoExtCall

----------------------------------------------------------------------------
(* GetExtents, lines 190-223 *)

ExtentsOutcomes == {"ok", "extents_failed", "metadata_failed"}

\* lines 194 and 587 without the test of the pointer
SourceMissing_Never(connected) == FALSE

\* lines 194 and 587: cd == nullptr
SourceMissing(connected) == ~connected

GetExtents(D) ==
    /\ pc = "idle"
    /\ \E c \in D.chains, s \in D.sources :
         /\ ci' = c
         /\ cd_connected' = s
         /\ IF SourceMissing(s)
            THEN \* line 194
                 ext' = ExtCall("false", "none")
            ELSE \E outcome \in ExtentsOutcomes :
                 IF outcome # "ok"
                 THEN \* lines 202-203
                      ext' = ExtCall("false", "none")
                 ELSE \E ok \in (IF c THEN BOOLEAN ELSE {TRUE}) :
                      IF ~ok
                      THEN \* line 213
                           ext' = ExtCall("false", "none")
                      ELSE ext' = ExtCall("true", IF c THEN "union" ELSE "volume")
    /\ UNCHANGED <<m_mode, pc, ret, callVars, cd_FrameID, fbo, targetVars, volumeVars,
                   tf_texture, blendVars, bindVars, valueVars, readVars, gl_log, obsVars,
                   uv, tf_call, paramOverride, groups, gl_draw_buffers>>

----------------------------------------------------------------------------
(* Render, lines 225-250: the chained renderer *)

\* lines 233-234 and 246-247: the modes that snapshot the chained renderer
SnapshotMode(m) == m = 0 \/ m = 2

Render_Chain(D) ==
    /\ pc = "idle"
    /\ \E m \in D.modes, c \in D.chains, s \in D.sources, h \in D.hosts,
          vp \in D.viewports, t \in D.frames, ov \in D.overrides :
       \E ok \in (IF c THEN BOOLEAN ELSE {TRUE}) :
          LET snap    == c /\ SnapshotMode(m)
              failed  == c /\ ~ok      \* line 244: FnRender of the chained renderer fails
              created == [valid |-> TRUE, enabled |-> TRUE, size |-> vp]
          IN  /\ m_mode' = m
              /\ ci' = c
              /\ cd_connected' = s
              /\ paramOverride' = ov
              /\ viewport' = vp
              /\ frameID' = t
              /\ gl_depth_test' = h.depth_test
              /\ gl_blend' = h.blend
              /\ gl_blend_func' = h.func
              /\ gl_entry' = h
              /\ fbo' = IF ~snap THEN fbo
                        ELSE IF failed THEN created
                        ELSE [created EXCEPT !.enabled = FALSE]
              /\ gl_log' = IF ~snap THEN <<>>
                           ELSE IF failed THEN <<"fbo_create", "fbo_enable">>
                           ELSE <<"fbo_create", "fbo_enable", "fbo_disable">>
              /\ pc' = IF failed THEN "idle" ELSE "targets"
              /\ ret' = IF failed THEN "false" ELSE "running"
    /\ compute_shdr' = "none"
    /\ saved' = NoSaved
    /\ uniforms' = {}
    /\ fbo_uniforms' = {}
    /\ use_depth_tx' = NotSet
    /\ halfVoxelSize' = <<NoFloat, NoFloat, NoFloat>>
    /\ voxelSize' = NoFloat
    /\ valRange_uniform' = NoValRange
    /\ groups' = NoGroups
    /\ rt_pixels' = <<>>
    /\ rndr' = NoRange
    /\ targets_made' = FALSE
    /\ uv' = NoCall
    /\ tf_call' = NoTfCall
    /\ ext' = NoExtCall
    /\ UNCHANGED <<cd_FrameID, targetVars, volumeVars, tf_texture, gl_tex, gl_image, gl_program,
                   gl_draw_buffers>>

----------------------------------------------------------------------------
(* Render, lines 252-288: the render targets *)

\* lines 253-254 without the comparison of the heights
TargetsStale_WidthOnly(target, vp) ==
    \/ target = Null
    \/ target.width # vp.width

\* lines 253-254
TargetsStale(target, vp) ==
    \/ target = Null
    \/ target.width # vp.width
    \/ target.height # vp.height

Render_Targets ==
    /\ pc = "targets"
    /\ IF TargetsStale(m_render_target, viewport)
       THEN /\ m_render_target' = Size(viewport.width, viewport.height)
            /\ m_normal_target' = Size(viewport.width, viewport.height)
            /\ m_depth_target' = Size(viewport.width, viewport.height)
            /\ targets_made' = TRUE
       ELSE /\ UNCHANGED targetVars
            /\ targets_made' = FALSE
    /\ gl_log' = gl_log \o <<"targets">>
    /\ pc' = "fetch"
    /\ UNCHANGED <<paramVars, callVars, ret, cd_FrameID, fbo, volumeVars, tf_texture,
                   blendVars, bindVars, valueVars, readVars, gl_entry, uv,
                   tf_call, ext, groups, gl_draw_buffers>>

----------------------------------------------------------------------------
(* updateVolumeData, lines 584-683 *)

\* the cached volume state of the renderer
VolumeCache ==
    [hash |-> m_volume_datahash, frame |-> m_frame_id, origin |-> m_volume_origin,
     extents |-> m_volume_extents, resolution |-> m_volume_resolution,
     valRange |-> valRange, texture |-> m_volume_texture]

\* line 598 without the else branch: every call uploads
IdentityChanged_NoCache(hash, frame) == TRUE

\* line 598 without the comparison of the frame ids
IdentityChanged_HashOnly(hash, frame) == m_volume_datahash # hash

\* line 598
IdentityChanged(hash, frame) == m_volume_datahash # hash \/ m_frame_id # frame

\* operator ! of C++ on an integer, as an int
LogicalNot(x) == IF x = 0 THEN 1 ELSE 0

\* line 607: (!metadata->GridType) == core::misc::CARTESIAN
GridRejected(grid) == LogicalNot(grid) = CARTESIAN

\* lines 625-668: the internal format, "reject" where the switch returns false, and
\* "indeterminate" where no case of the switch assigns internal_format
PixelFormat(scalar) ==
    CASE scalar.type = "FLOATING_POINT" ->
            IF scalar.length = 4 THEN "GL_R32F" ELSE "reject"
      [] scalar.type = "UNSIGNED_INTEGER" ->
            IF scalar.length = 1 THEN "GL_R8"
            ELSE IF scalar.length = 2 THEN "GL_R16UI" ELSE "reject"
      [] scalar.type = "SIGNED_INTEGER" ->
            IF scalar.length = 2 THEN "GL_R16I" ELSE "reject"
      [] scalar.type = "BITS" -> "reject"
      [] OTHER -> "indeterminate"

\* what an uninitialized internal_format may hold
IndeterminateFormats == {"GL_R32F", "GL_R8", "GL_R16UI", "GL_R16I", "garbage"}

FetchOutcomes == {"ok", "extents_failed", "metadata_failed", "data_failed"}

\* line 290 with the result of updateVolumeData ignored
RenderContinues_Always(status) == TRUE

\* line 290: Render goes on iff updateVolumeData returned true
RenderContinues(status) == status

updateVolumeData(D) ==
    /\ pc = "fetch"
    /\ IF SourceMissing(cd_connected)
       THEN \* line 587
            /\ uv' = UvCall("false", FALSE, FALSE, NoHash, NoFrame, NONE, Float32)
            /\ pc' = IF RenderContinues(FALSE) THEN "raycast" ELSE "idle"
            /\ ret' = IF RenderContinues(FALSE) THEN "running" ELSE "false"
            /\ UNCHANGED <<cd_FrameID, volumeVars, gl_log>>
       ELSE \E outcome \in FetchOutcomes :
            IF outcome # "ok"
            THEN \* lines 592-594: a call of the data source fails
                 /\ uv' = UvCall("false", FALSE, FALSE, NoHash, NoFrame, NONE, Float32)
                 /\ pc' = IF RenderContinues(FALSE) THEN "raycast" ELSE "idle"
                 /\ ret' = IF RenderContinues(FALSE) THEN "running" ELSE "false"
                 /\ UNCHANGED <<cd_FrameID, volumeVars, gl_log>>
            ELSE \E f \in D.srcframes :
            IF f # frameID
            THEN \* line 595: the loop goes round again
                 /\ cd_FrameID' = f
                 /\ uv' = NoCall
                 /\ UNCHANGED <<pc, ret, volumeVars, gl_log>>
            ELSE \E h \in D.hashes, md \in D.metas, geo \in D.geos :
                 \E junk \in (IF PixelFormat(md.scalar) = "indeterminate"
                              THEN IndeterminateFormats ELSE {"none"}) :
                 LET changed  == IdentityChanged(h, f)
                     badGrid  == GridRejected(md.grid)
                     fmt      == PixelFormat(md.scalar)
                     geometry == changed /\ ~badGrid
                     upload   == geometry /\ fmt # "reject"
                     success  == ~changed \/ upload
                 IN  /\ cd_FrameID' = f
                     /\ m_volume_datahash' = IF changed THEN h ELSE m_volume_datahash
                     /\ m_frame_id' = IF changed THEN f ELSE m_frame_id
                     /\ m_volume_origin' = IF geometry THEN Origin(geo) ELSE m_volume_origin
                     /\ m_volume_extents' = IF geometry THEN Extents(geo) ELSE m_volume_extents
                     /\ m_volume_resolution' =
                            IF geometry THEN Resolution(geo) ELSE m_volume_resolution
                     /\ valRange' = IF geometry THEN MinMax(geo) ELSE valRange
                     /\ m_volume_texture' =
                            IF upload
                            THEN [format |-> IF fmt = "indeterminate" THEN junk ELSE fmt,
                                  hash |-> h, frame |-> f]
                            ELSE m_volume_texture
                     /\ uv' = UvCall(IF success THEN "true" ELSE "false", TRUE, upload,
                                     h, f, md.grid, md.scalar)
                     /\ gl_log' = IF success THEN gl_log \o <<"volume">> ELSE gl_log
                     /\ pc' = IF RenderContinues(success) THEN "raycast" ELSE "idle"
                     /\ ret' = IF RenderContinues(success) THEN "running" ELSE "false"
    /\ UNCHANGED <<paramVars, callVars, fbo, targetVars, tf_texture, blendVars, bindVars,
                   valueVars, readVars, obsVars, tf_call, ext, groups, gl_draw_buffers>>

----------------------------------------------------------------------------
(* updateTransferFunction, lines 686-695 *)

\* line 690 without the call of the provider: its handle is taken whenever it is connected
updateTransferFunction_Connected(o) == IF o.present THEN o.handle ELSE tf_texture

\* lines 690-692: tf_texture after the call when the provider does o
updateTransferFunction(o) == IF o.present /\ o.ok THEN o.handle ELSE tf_texture

\* line 694: what the call returns
TransferFunctionStatus(o) == TRUE

----------------------------------------------------------------------------
(* Render, lines 292-452: program, uniforms and bindings of the compute pass *)

\* lines 303-315 with the last program taken by every other mode
ComputeProgram_ElseAggr(m) ==
    CASE m = 0 -> "raycast_volume_compute"
      [] m = 1 -> "raycast_volume_compute_iso"
      [] OTHER -> "raycast_volume_compute_aggr"

\* lines 303-315: the compute program of a mode, "none" for an unknown mode
ComputeProgram(m) ==
    CASE m = 0 -> "raycast_volume_compute"
      [] m = 1 -> "raycast_volume_compute_iso"
      [] m = 2 -> "raycast_volume_compute_aggr"
      [] OTHER -> "none"

\* lines 304 and 310: the modes that refresh the transfer function
RefreshesTransferFunction(m) == m = 0 \/ m = 2

\* lines 320-387: the uniforms every mode sets
SharedUniforms ==
    {"view_mx", "proj_mx", "rt_resolution", "boxMin", "boxMax", "halfVoxelSize",
     "voxelSize", "valRange", "rayStepRatio", "use_lighting", "ka", "kd", "ks",
     "shininess", "light", "ambient_col", "specular_col", "light_col", "material_col",
     "background"}

\* lines 389-398 with the second branch taken by every other mode
ModeUniforms_ElseIso(m) ==
    IF m = 0 THEN {"opacityThreshold"}
    ELSE {"isoValue", "opacity"}

\* lines 389-398
ModeUniforms(m) ==
    IF m = 0 THEN {"opacityThreshold"}
    ELSE IF m = 1 THEN {"isoValue", "opacity"}
    ELSE {}

\* line 410 with the condition of lines 465-466
BindsTransferFunction_Snapshot(m) == m = 0 \/ m = 2

\* line 410: the transfer function is bound for the compute pass
BindsTransferFunction(m) == m = 0

\* lines 410-444: the uniforms of the transfer function and of the snapshot
SnapshotUniforms(m, chained) ==
    (IF BindsTransferFunction(m) THEN {"tf_tx1D"} ELSE {})
    \cup (IF SnapshotMode(m)
          THEN (IF chained THEN {"color_tx2D", "depth_tx2D", "use_depth_tx"}
                ELSE {"use_depth_tx"})
          ELSE {})

\* lines 449-452: the mode that writes the normal and depth images
WritesNormalDepth(m) == m = 1

\* line 406 dereferences m_volume_texture; with no texture the behaviour is undefined
NullDerefOutcomes == {"crash", "proceed"}

\* lines 415 and 431 with the snapshot bound in Integration mode only
BindsSnapshot_IntegrationOnly(m, chained) == m = 0 /\ chained

\* lines 410, 415, 430, 431: the snapshot of the chained renderer is bound
BindsSnapshot(m, chained) == (m = 0 \/ m = 2) /\ chained

\* lines 424, 426, 440, 442: the value given to use_depth_tx
UseDepthTx(m, chained) ==
    IF m = 0 \/ m = 2 THEN (IF chained THEN 1 ELSE 0) ELSE NotSet

\* lines 349-356 without the override: always the cached range
ValueRange_Cached(override, cached) == cached

\* lines 349-356: the range given to the uniform valRange
ValueRange(override, cached) ==
    IF override.on THEN <<override.min, override.max>> ELSE cached

\* lines 341-342: 1.0f / (2.0f * (resolution - 1)) for each axis
HalfVoxelSize(resolution) ==
    <<FloatDiv(1, 2 * (resolution[1] - 1)), FloatDiv(1, 2 * (resolution[2] - 1)),
      FloatDiv(1, 2 * (resolution[3] - 1))>>

\* lines 343-346: maxExtents / (maxResolution - 1.0f)
VoxelSize(extents, resolution) == FloatDiv(Max3(extents), Max3(resolution) - 1)

Render_Raycast(D) ==
    /\ pc = "raycast"
    /\ IF ComputeProgram(m_mode) = "none"
       THEN \* lines 312-315
            /\ pc' = "idle"
            /\ ret' = "false"
            /\ tf_call' = NoTfCall
            /\ UNCHANGED <<compute_shdr, tf_texture, bindVars, valueVars>>
       ELSE \E o \in (IF RefreshesTransferFunction(m_mode) THEN D.tfs ELSE {NoProvider}),
               deref \in (IF m_volume_texture = Null THEN NullDerefOutcomes ELSE {"proceed"}) :
            /\ tf_texture' = IF RefreshesTransferFunction(m_mode)
                             THEN updateTransferFunction(o) ELSE tf_texture
            /\ tf_call' = IF RefreshesTransferFunction(m_mode)
                          THEN TfCall(o, TransferFunctionStatus(o)) ELSE NoTfCall
            /\ IF RefreshesTransferFunction(m_mode) /\ ~TransferFunctionStatus(o)
               THEN \* lines 304 and 310
                    /\ pc' = "idle"
                    /\ ret' = "false"
                    /\ UNCHANGED <<compute_shdr, bindVars, valueVars>>
               ELSE /\ compute_shdr' = ComputeProgram(m_mode)
                    /\ gl_program' = ComputeProgram(m_mode)
                    /\ halfVoxelSize' = HalfVoxelSize(m_volume_resolution)
                    /\ voxelSize' = VoxelSize(m_volume_extents, m_volume_resolution)
                    /\ valRange_uniform' = ValueRange(paramOverride, valRange)
                    /\ IF deref = "crash"
                       THEN /\ pc' = "crashed"
                            /\ ret' = "crashed"
                            /\ uniforms' = SharedUniforms \cup ModeUniforms(m_mode)
                            /\ UNCHANGED <<gl_tex, gl_image, fbo_uniforms, use_depth_tx>>
                       ELSE /\ pc' = "dispatch"
                            /\ ret' = "running"
                            /\ uniforms' = SharedUniforms \cup ModeUniforms(m_mode)
                                           \cup {"volume_tx3D"}
                                           \cup SnapshotUniforms(m_mode, ci)
                            /\ use_depth_tx' = UseDepthTx(m_mode, ci)
                            /\ gl_tex' =
                                 [u \in Units |->
                                    IF u = 0 THEN
                                        [gl_tex[u] EXCEPT !.t3D =
                                            IF m_volume_texture = Null
                                            THEN TexName("garbage")
                                            ELSE TexName("raycast_volume_texture")]
                                    ELSE IF u = 1 /\ BindsTransferFunction(m_mode) THEN
                                        [gl_tex[u] EXCEPT !.t1D = TfName(tf_texture')]
                                    ELSE IF u = 2 /\ BindsSnapshot(m_mode, ci) THEN
                                        [gl_tex[u] EXCEPT !.t2D = TexName("fbo_colour")]
                                    ELSE IF u = 3 /\ BindsSnapshot(m_mode, ci) THEN
                                        [gl_tex[u] EXCEPT !.t2D = TexName("fbo_depth")]
                                    ELSE gl_tex[u]]
                            /\ gl_image' =
                                 [u \in ImageUnits |->
                                    IF u = 0 THEN TexName("raycast_volume_render_target")
                                    ELSE IF u = 1 /\ WritesNormalDepth(m_mode)
                                         THEN TexName("raycast_volume_normal_target")
                                    ELSE IF u = 2 /\ WritesNormalDepth(m_mode)
                                         THEN TexName("raycast_volume_depth_target")
                                    ELSE gl_image[u]]
                            /\ UNCHANGED fbo_uniforms
    /\ uv' = NoCall
    /\ UNCHANGED <<paramVars, viewport, frameID, saved, cd_FrameID, fbo, targetVars,
                   volumeVars, blendVars, readVars, gl_log, obsVars, ext, groups,
                   gl_draw_buffers>>

----------------------------------------------------------------------------
(* Render, lines 454-503: dispatch, unbind, barrier, readback *)

\* lines 465-466 with the snapshot units released in Integration mode only
UnbindsSnapshot_IntegrationOnly(m) == m = 0

\* lines 465-466: the modes that release texture units 2 and 3
UnbindsSnapshot(m) == m = 0 \/ m = 2

\* line 472: the mode that releases texture unit 1
UnbindsTransferFunction(m) == m = 0

\* line 486: the mode that reads the render target back
ReadsBack(m) == m = 2

\* lines 496-500: the scan of the alpha channel, from texel idx on
RECURSIVE ScanAlpha(_, _, _)
ScanAlpha(tmp_data, idx, range) ==
    IF idx > Len(tmp_data) THEN range
    ELSE LET val == tmp_data[idx].alpha
         IN  ScanAlpha(tmp_data, idx + 1,
                       [min |-> IF val < range.min THEN val ELSE range.min,
                        max |-> IF val > range.max THEN val ELSE range.max])

\* lines 484-500: rndr_min, rndr_max after the readback of the texels tmp_data
Readback(tmp_data) == ScanAlpha(tmp_data, 1, NoRange)

\* static_cast<int>(std::ceil(n / d)) of line 456, for a whole n
Ceil(n, d) == IF n % d = 0 THEN n \div d ELSE (n \div d) + 1

\* line 456 without std::ceil: the cast to int truncates
GroupCount_Truncated(extent) == extent \div LocalSize

\* line 456: the number of groups along an axis of the render target
GroupCount(extent) == Ceil(extent, LocalSize)

\* lines 455-503 with the barrier after the readback
DispatchCommands_BarrierLast(m) ==
    IF m = 2 THEN <<"dispatch", "readback", "barrier">> ELSE <<"dispatch", "barrier">>

\* lines 455-503: dispatch (455), memory barrier (481), readback (494)
DispatchCommands(m) ==
    IF m = 2 THEN <<"dispatch", "barrier", "readback">> ELSE <<"dispatch", "barrier">>

\* what the compute pass may have written to a render target of n texels
Images(D, n) == [1..n -> {Texel(a, b) : a \in D.alphas, b \in D.backgrounds}]

Render_Dispatch(D) ==
    /\ pc = "dispatch"
    /\ gl_image' = [u \in ImageUnits |->
                      IF u = 0 \/ WritesNormalDepth(m_mode) THEN NoTex ELSE gl_image[u]]
    /\ gl_tex' =
         [u \in Units |->
            IF u = 0 THEN [gl_tex[u] EXCEPT !.t3D = NoTex,
                                            !.t2D = IF ReadsBack(m_mode) THEN NoTex ELSE @]
            ELSE IF u = 1 /\ UnbindsTransferFunction(m_mode) THEN [gl_tex[u] EXCEPT !.t1D = NoTex]
            ELSE IF u \in {2, 3} /\ UnbindsSnapshot(m_mode) THEN [gl_tex[u] EXCEPT !.t2D = NoTex]
            ELSE gl_tex[u]]
    /\ gl_program' = "none"
    /\ IF ReadsBack(m_mode)
       THEN \E img \in Images(D, m_render_target.width * m_render_target.height) :
               /\ rt_pixels' = img
               /\ rndr' = Readback(img)
       ELSE /\ rt_pixels' = <<>>
            /\ rndr' = NoRange
    /\ gl_log' = gl_log \o DispatchCommands(m_mode)
    /\ groups' = <<GroupCount(m_render_target.width), GroupCount(m_render_target.height), 1>>
    /\ tf_call' = NoTfCall
    /\ pc' = "composite"
    /\ UNCHANGED <<paramVars, callVars, ret, cd_FrameID, fbo, targetVars, volumeVars,
                   tf_texture, blendVars, uniforms, fbo_uniforms, valueVars, obsVars, uv, ext,
                   gl_draw_buffers>>

----------------------------------------------------------------------------
(* Render, lines 505-555: state and bindings of the composite pass *)

\* line 523: glBlendFunc(GL_SRC_ALPHA, GL_ONE_MINUS_SRC_ALPHA)
CompositeBlendFunc ==
    BlendFunc("GL_SRC_ALPHA", "GL_ONE_MINUS_SRC_ALPHA", "GL_SRC_ALPHA", "GL_ONE_MINUS_SRC_ALPHA")

\* lines 515-520 without the two branches: the depth test stays as the host left it
CompositeDepthTest_Keep(m, enabled) == enabled

\* lines 515-520: GL_DEPTH_TEST during the composite pass
CompositeDepthTest(m, enabled) ==
    IF m = 0 \/ m = 2 THEN FALSE
    ELSE IF m = 1 THEN TRUE
    ELSE enabled

\* lines 525-528
CompositeProgram(m) ==
    IF m = 2 THEN "render_to_framebuffer_aggr" ELSE "render_to_framebuffer"

\* line 536: the mode whose composite pass calls glDrawBuffers (line 546)
SetsDrawBuffers(m) == m = 1

\* glDrawBuffers with colour attachments takes effect on a framebuffer object
\* of the host and is an INVALID_OPERATION on the default framebuffer
DrawBuffersOutcomes == {"set", "invalid_operation"}

Render_Composite ==
    /\ pc = "composite"
    /\ saved' = [depth_test |-> gl_depth_test, blend |-> gl_blend, func |-> gl_blend_func]
    /\ gl_depth_test' = CompositeDepthTest(m_mode, gl_depth_test)
    /\ gl_blend' = TRUE
    /\ gl_blend_func' = CompositeBlendFunc
    /\ gl_program' = CompositeProgram(m_mode)
    /\ gl_tex' =
         [u \in Units |->
            IF u = 0 THEN [gl_tex[u] EXCEPT !.t2D = TexName("raycast_volume_render_target")]
            ELSE IF u = 1 /\ m_mode = 1
                 THEN [gl_tex[u] EXCEPT !.t2D = TexName("raycast_volume_normal_target")]
            ELSE IF u = 2 /\ m_mode = 1
                 THEN [gl_tex[u] EXCEPT !.t2D = TexName("raycast_volume_depth_target")]
            ELSE IF u = 1 /\ m_mode = 2 THEN [gl_tex[u] EXCEPT !.t1D = TfName(tf_texture)]
            ELSE gl_tex[u]]
    /\ fbo_uniforms' = {"src_tx2D"}
                       \cup (IF m_mode = 1 THEN {"normal_tx2D", "depth_tx2D"} ELSE {})
                       \cup (IF m_mode = 2 THEN {"tf_tx1D", "valRange"} ELSE {})
    /\ \E outcome \in (IF SetsDrawBuffers(m_mode) THEN DrawBuffersOutcomes ELSE {"none"}) :
         gl_draw_buffers' = IF outcome = "set" THEN DualDrawBuffers ELSE gl_draw_buffers
    /\ pc' = "draw"
    /\ UNCHANGED <<paramVars, viewport, frameID, compute_shdr, ret, cd_FrameID, fbo,
                   targetVars, volumeVars, tf_texture, gl_image, uniforms, valueVars,
                   readVars, gl_log, obsVars, uv, tf_call, ext, groups>>

----------------------------------------------------------------------------
(* Render, lines 557-581: draw, unbind, restore *)

\* line 574 with the arguments in the order the locals are declared (line 509)
RestoreBlendFunc_DeclOrder(s) ==
    BlendFunc(s.func.src_rgb, s.func.src_alpha, s.func.dst_rgb, s.func.dst_alpha)

\* line 574: glBlendFuncSeparate(src_rgb, dst_rgb, src_alpha, dst_alpha) of the saved values
RestoreBlendFunc(s) ==
    BlendFunc(s.func.src_rgb, s.func.dst_rgb, s.func.src_alpha, s.func.dst_alpha)

\* line 575: GL_BLEND after the restore, from the saved flag and the current one
RestoreBlend(s, enabled) == IF ~s.blend THEN FALSE ELSE enabled

\* lines 576-579
RestoreDepthTest(s) == s.depth_test

Render_Draw ==
    /\ pc = "draw"
    /\ gl_tex' =
         [u \in Units |->
            IF u = 0 THEN [gl_tex[u] EXCEPT !.t2D = NoTex]
            ELSE IF u \in {1, 2} /\ m_mode = 1 THEN [gl_tex[u] EXCEPT !.t2D = NoTex]
            ELSE IF u = 1 /\ m_mode = 2 THEN [gl_tex[u] EXCEPT !.t1D = NoTex]
            ELSE gl_tex[u]]
    /\ gl_program' = "none"
    /\ gl_blend_func' = RestoreBlendFunc(saved)
    /\ gl_blend' = RestoreBlend(saved, gl_blend)
    /\ gl_depth_test' = RestoreDepthTest(saved)
    /\ gl_log' = gl_log \o <<"draw">>
    /\ rt_pixels' = <<>>
    /\ rndr' = NoRange
    /\ pc' = "idle"
    /\ ret' = "true"
    /\ UNCHANGED <<paramVars, callVars, cd_FrameID, fbo, targetVars, volumeVars,
                   tf_texture, gl_image, uniforms, fbo_uniforms, valueVars, obsVars, uv,
                   tf_call, ext, groups, gl_draw_buffers>>

----------------------------------------------------------------------------
(* Specifications *)

Next ==
    \/ Render_Chain(DomFrame)
    \/ Render_Targets
    \/ updateVolumeData(DomFrame)
    \/ Render_Raycast(DomFrame)
    \/ Render_Dispatch(DomFrame)
    \/ Render_Composite
    \/ Render_Draw

Spec == Init /\ [][Next]_vars

NextVolume ==
    \/ Render_Chain(DomVolume)
    \/ Render_Targets
    \/ updateVolumeData(DomVolume)
    \/ Render_Raycast(DomVolume)
    \/ Render_Dispatch(DomVolume)
    \/ Render_Composite
    \/ Render_Draw

SpecVolume == Init /\ [][NextVolume]_vars

\* the renderer's thread keeps running: a step that can be taken is taken
FairVolume == SpecVolume /\ WF_vars(NextVolume)

NextFormat ==
    \/ Render_Chain(DomFormat)
    \/ Render_Targets
    \/ updateVolumeData(DomFormat)
    \/ Render_Raycast(DomFormat)
    \/ Render_Dispatch(DomFormat)
    \/ Render_Composite
    \/ Render_Draw

SpecFormat == Init /\ [][NextFormat]_vars

NextTargets ==
    \/ Render_Chain(DomTargets)
    \/ Render_Targets
    \/ updateVolumeData(DomTargets)
    \/ Render_Raycast(DomTargets)
    \/ Render_Dispatch(DomTargets)
    \/ Render_Composite
    \/ Render_Draw

SpecTargets == Init /\ [][NextTargets]_vars

NextReadback ==
    \/ Render_Chain(DomReadback)
    \/ Render_Targets
    \/ updateVolumeData(DomReadback)
    \/ Render_Raycast(DomReadback)
    \/ Render_Dispatch(DomReadback)
    \/ Render_Composite
    \/ Render_Draw

SpecReadback == Init /\ [][NextReadback]_vars

NextRange ==
    \/ Render_Chain(DomRange)
    \/ Render_Targets
    \/ updateVolumeData(DomRange)
    \/ Render_Raycast(DomRange)
    \/ Render_Dispatch(DomRange)
    \/ Render_Composite
    \/ Render_Draw

SpecRange == Init /\ [][NextRange]_vars

NextGroups ==
    \/ Render_Chain(DomGroups)
    \/ Render_Targets
    \/ updateVolumeData(DomGroups)
    \/ Render_Raycast(DomGroups)
    \/ Render_Dispatch(DomGroups)
    \/ Render_Composite
    \/ Render_Draw

SpecGroups == Init /\ [][NextGroups]_vars

NextFetch ==
    \/ GetExtents(DomFetch)
    \/ Render_Chain(DomFetch)
    \/ Render_Targets
    \/ updateVolumeData(DomFetch)
    \/ Render_Raycast(DomFetch)
    \/ Render_Dispatch(DomFetch)
    \/ Render_Composite
    \/ Render_Draw

SpecFetch == Init /\ [][NextFetch]_vars

----------------------------------------------------------------------------
(* Properties *)

Returned(r) == pc = "idle" /\ ret = r

\* C1: after a Render call that returns true, the blend-enable flag, the
\* depth-test-enable flag and the four blend factors are what they were when
\* the call was entered, for every mode and every state the host left.
C1_StateRestored ==
    Returned("true") =>
        /\ gl_blend = gl_entry.blend
        /\ gl_depth_test = gl_entry.depth_test
        /\ gl_blend_func = gl_entry.func

\* C1 witness: an Isosurface frame returned true for a host that had blending
\* and depth testing off and four different blend factors.
C1_Witness ==
    /\ Returned("true")
    /\ m_mode = 1
    /\ ~gl_entry.blend
    /\ ~gl_entry.depth_test
    /\ gl_entry.func = BlendFunc("GL_SRC_ALPHA", "GL_ONE", "GL_ZERO", "GL_DST_ALPHA")

\* the part of the cached volume state that C2 and C4 speak of
cacheVars == <<m_volume_datahash, m_frame_id, m_volume_origin, m_volume_extents,
               m_volume_resolution, valRange>>

\* an updateVolumeData call leaves the fetch loop in this step and the data
\* source reports the identity uv'.hash, uv'.frame
LeavesFetchLoop == pc = "fetch" /\ uv'.reached

\* the reported identity differs from the identity cached before the call
ReportedIdentityDiffers == uv'.hash # m_volume_datahash \/ uv'.frame # m_frame_id

\* C2: a call in which the data source reports the identity that is already
\* cached (the identity of the call before) returns success, creates no
\* volume texture and leaves texture, identity, origin, extents, resolution
\* and value range as they were.
C2_SameIdentityIsNoOp ==
    [][LeavesFetchLoop /\ ~ReportedIdentityDiffers =>
        /\ uv'.status = "true"
        /\ ~uv'.uploaded
        /\ UNCHANGED volumeVars]_vars

\* C2 witness: a call returned success without an upload while a texture of
\* the reported identity exists.
C2_Witness ==
    /\ pc = "raycast"
    /\ uv.reached /\ uv.status = "true" /\ ~uv.uploaded
    /\ m_volume_texture # Null
    /\ m_volume_texture.hash = uv.hash /\ m_volume_texture.frame = uv.frame

\* C3 as claimed: a call uploads a volume texture iff the reported identity
\* differs in a component from the identity cached before the call.
C3_UploadIffIdentityDiffers ==
    [][LeavesFetchLoop => (uv'.uploaded <=> ReportedIdentityDiffers)]_vars

\* C3 as amended: a call uploads a volume texture iff the reported identity
\* differs in a component from the identity cached before the call and the
\* call returns success (the volume is accepted).
C3_UploadIffDiffersAndAccepted ==
    [][LeavesFetchLoop =>
        (uv'.uploaded <=> (ReportedIdentityDiffers /\ uv'.status = "true"))]_vars

\* C3 witness: a call uploaded the volume of frame MaxFrame; the frames
\* requested start at 0, so the identity differed in its frame id.
C3_Witness ==
    /\ pc = "raycast"
    /\ uv.reached /\ uv.uploaded /\ uv.status = "true"
    /\ uv.frame = MaxFrame
    /\ m_volume_texture # Null /\ m_volume_texture.frame = MaxFrame

\* C4: the cached hash, frame id, origin, extents, resolution and value range
\* change only in a call that returns success after an upload; a call that
\* returns failure leaves all of them as they were.
C4_CacheChangesOnlyOnSuccess ==
    [][pc = "fetch" =>
        /\ uv'.status = "false" => UNCHANGED cacheVars
        /\ cacheVars' # cacheVars => uv'.status = "true" /\ uv'.uploaded]_vars

\* C5: every call that reports a grid type other than CARTESIAN returns
\* failure and uploads no texture.  Stated for the calls that get to the
\* validation of the grid type, those that report a new identity.
C5_NonCartesianRejected ==
    [][LeavesFetchLoop /\ ReportedIdentityDiffers /\ uv'.grid # CARTESIAN =>
        uv'.status = "false" /\ ~uv'.uploaded]_vars

\* the table of section 4.1: scalar type, scalar length, pixel format
FormatTable ==
    { <<"FLOATING_POINT", 4, "GL_R32F">>, <<"UNSIGNED_INTEGER", 1, "GL_R8">>,
      <<"UNSIGNED_INTEGER", 2, "GL_R16UI">>, <<"SIGNED_INTEGER", 2, "GL_R16I">> }
InTable(scalar) == \E row \in FormatTable : row[1] = scalar.type /\ row[2] = scalar.length

\* C6: an uploaded texture has the format the table gives for the reported
\* (scalar type, scalar length); a call that reports a pair outside the table
\* returns failure and creates no texture.  Stated for the calls that get to
\* the mapping, those that report a new identity.
C6_FormatTableExact ==
    [][LeavesFetchLoop /\ ReportedIdentityDiffers =>
        /\ uv'.uploaded =>
              <<uv'.scalar.type, uv'.scalar.length, m_volume_texture'.format>> \in FormatTable
        /\ ~InTable(uv'.scalar) => uv'.status = "false" /\ ~uv'.uploaded]_vars

\* C7: an updateVolumeData call always ends: the fetch loop is left after a
\* bounded number of rounds, with a failure when the data source never
\* reports the requested frame.
C7_FetchLoopEnds == (pc = "fetch") ~> (pc # "fetch")

\* C8: the three render targets are recreated in a frame exactly when no
\* target exists or the colour target's width or height differs from the
\* viewport's; otherwise nothing is recreated; afterwards all three targets
\* have the viewport's size.
C8_TargetsRecreatedIffStale ==
    [][pc = "targets" =>
        /\ targets_made' <=> (\/ m_render_target = Null
                              \/ m_render_target.width # viewport.width
                              \/ m_render_target.height # viewport.height)
        /\ ~targets_made' => UNCHANGED targetVars
        /\ m_render_target' = Size(viewport.width, viewport.height)
        /\ m_normal_target' = Size(viewport.width, viewport.height)
        /\ m_depth_target' = Size(viewport.width, viewport.height)]_vars

\* C8 witness: a frame whose viewport has the size of the cached targets,
\* MaxDim x 1, has passed the target step and recreated nothing.
C8_Witness ==
    /\ pc = "fetch"
    /\ ~targets_made
    /\ m_render_target = Size(MaxDim, 1)
    /\ viewport = Size(MaxDim, 1)

\* C9: when the compute pass is dispatched, opacityThreshold is set iff the
\* mode is Integration, isoValue and opacity are set iff the mode is
\* Isosurface, and image units 1 and 2 hold the normal and depth targets iff
\* the mode is Isosurface.
C9_ModeUniformsExclusive ==
    pc = "dispatch" =>
        /\ "opacityThreshold" \in uniforms <=> m_mode = 0
        /\ "isoValue" \in uniforms <=> m_mode = 1
        /\ "opacity" \in uniforms <=> m_mode = 1
        /\ gl_image[1] = TexName("raycast_volume_normal_target") <=> m_mode = 1
        /\ gl_image[2] = TexName("raycast_volume_depth_target") <=> m_mode = 1
        /\ m_mode # 1 => gl_image[1] = NoTex /\ gl_image[2] = NoTex

\* C9 witness: an Aggregate frame is at the dispatch.
C9_Witness == pc = "dispatch" /\ m_mode = 2

\* C10 as claimed: at the dispatch the transfer function texture the renderer
\* holds is bound to texture unit 1 in Integration and in Aggregate mode, and
\* nothing is bound there in Isosurface mode.
C10_TfBoundInBothModes ==
    pc = "dispatch" =>
        /\ m_mode \in {0, 2} => gl_tex[1].t1D = TfName(tf_texture)
        /\ m_mode = 1 => gl_tex[1].t1D = NoTex

\* C10 as amended: at the dispatch the transfer function texture the renderer
\* holds is bound to texture unit 1 in Integration mode only; in Isosurface
\* and in Aggregate mode nothing is bound to unit 1.
C10_TfBoundInIntegrationOnly ==
    pc = "dispatch" =>
        /\ m_mode = 0 => gl_tex[1].t1D = TfName(tf_texture)
        /\ m_mode \in {1, 2} => gl_tex[1].t1D = NoTex

\* C10 witness: an Integration frame is at the dispatch with a transfer
\* function texture of the provider bound to unit 1.
C10_Witness ==
    /\ pc = "dispatch"
    /\ m_mode = 0
    /\ tf_texture # 0
    /\ gl_tex[1].t1D = [kind |-> "tf", id |-> tf_texture]

\* every texture unit and every image unit is unbound
NothingBound ==
    /\ \A u \in Units : gl_tex[u] = NoBinding
    /\ \A u \in ImageUnits : gl_image[u] = NoTex

\* C11: at the dispatch of an Integration or Aggregate frame, the colour and
\* depth snapshot of the chained renderer is bound to texture units 2 and 3
\* and use_depth_tx is 1 iff a chained renderer is connected; with none
\* connected use_depth_tx is 0 and nothing is bound to units 2 and 3.
C11_SnapshotBoundIffChained ==
    pc = "dispatch" /\ m_mode \in {0, 2} =>
        /\ ci <=> /\ gl_tex[2].t2D = TexName("fbo_colour")
                  /\ gl_tex[3].t2D = TexName("fbo_depth")
                  /\ use_depth_tx = 1
        /\ ci => fbo.valid
        /\ ~ci => /\ use_depth_tx = 0
                  /\ gl_tex[2].t2D = NoTex
                  /\ gl_tex[3].t2D = NoTex

\* C11 witness: an Aggregate frame with a chained renderer is at the dispatch
\* with the snapshot bound.
C11_Witness ==
    /\ pc = "dispatch"
    /\ m_mode = 2
    /\ ci
    /\ use_depth_tx = 1
    /\ gl_tex[2].t2D = TexName("fbo_colour")

\* C12: for every mode, chained or not, nothing the compute pass bound is
\* still bound when the composite pass starts, and nothing at all is bound
\* when Render has returned true.
C12_NoBindingLeft ==
    /\ pc = "composite" => NothingBound
    /\ Returned("true") => NothingBound

\* C12 witness: a chained Aggregate frame, whose compute pass had the
\* snapshot bound, has returned true.
C12_Witness ==
    /\ Returned("true")
    /\ m_mode = 2
    /\ ci
    /\ "color_tx2D" \in uniforms
    /\ "tf_tx1D" \in fbo_uniforms

\* C13: at the composite draw the depth test is off in Integration and in
\* Aggregate mode and on in Isosurface mode, whatever it was at the entry.
C13_DepthTestAtDraw ==
    pc = "draw" =>
        /\ m_mode \in {0, 2} => ~gl_depth_test
        /\ m_mode = 1 => gl_depth_test
        /\ m_mode \in {0, 1, 2}

\* C13 witness: an Isosurface frame entered with the depth test off is at the
\* draw with the depth test on.
C13_Witness ==
    /\ pc = "draw"
    /\ m_mode = 1
    /\ ~gl_entry.depth_test
    /\ gl_depth_test

\* C14: an updateTransferFunction call returns true and Render goes on; the
\* handle held becomes the provider's handle when the provider is connected
\* and its call succeeds, and stays what it was otherwise.
C14_RefreshToleratesFailure ==
    [][pc = "raycast" /\ tf_call'.called =>
        /\ tf_call'.status
        /\ pc' # "idle"
        /\ tf_call'.o.present /\ tf_call'.o.ok => tf_texture' = tf_call'.o.handle
        /\ ~(tf_call'.o.present /\ tf_call'.o.ok) => tf_texture' = tf_texture]_vars

\* C14 witness: the provider's call failed while the renderer held a handle
\* other than the one the provider offers, and the frame is at the dispatch
\* with the handle it held.
C14_Witness ==
    /\ pc = "dispatch"
    /\ tf_call.called
    /\ tf_call.o.present /\ ~tf_call.o.ok
    /\ tf_texture # 0
    /\ tf_texture # tf_call.o.handle

\* the GL command e has been issued in this frame
InLog(e) == \E i \in DOMAIN gl_log : gl_log[i] = e

\* C15: a snapshot framebuffer is created in a frame only when the mode is
\* Integration or Aggregate and a chained renderer is connected, it is created
\* in every such frame, and none exists any more when Render has returned.
\* The last part is stated for the calls that return true.
C15_SnapshotFboPerFrame ==
    /\ InLog("fbo_create") => SnapshotMode(m_mode) /\ ci
    /\ pc \notin {"idle"} /\ SnapshotMode(m_mode) /\ ci => InLog("fbo_create")
    /\ Returned("true") => ~fbo.valid

\* C16: a voxel size that is the result of a division by zero is never
\* computed or bound: no frame whose cached resolution is 1 along the axis of
\* the largest resolution gets to the dispatch.
C16_NoDivisionByZero ==
    /\ voxelSize.set => IsFinite(voxelSize)
    /\ pc = "dispatch" => Max3(m_volume_resolution) # 1

\* the alpha values of the texels that are not background
NonBackground(pixels) == {pixels[i].alpha : i \in {j \in DOMAIN pixels : ~pixels[j].background}}

\* C17: after the readback of an Aggregate frame whose render target has
\* texels that are not background, rndr_min and rndr_max are the least and
\* the greatest alpha of those texels, whatever the background texels hold;
\* in the other modes there is no readback.
C17_ReadbackRange ==
    pc = "composite" =>
        /\ m_mode = 2 /\ NonBackground(rt_pixels) # {} =>
              /\ rndr.min \in NonBackground(rt_pixels)
              /\ rndr.max \in NonBackground(rt_pixels)
              /\ \A a \in NonBackground(rt_pixels) : rndr.min <= a /\ a <= rndr.max
        /\ m_mode # 2 => ~InLog("readback") /\ rndr = NoRange

\* C18: at the dispatch the compute program is the one of the mode; a frame
\* whose mode is none of Integration, Isosurface, Aggregate never enables a
\* program, never dispatches, never draws and does not return true.
C18_ProgramByMode ==
    /\ pc = "dispatch" =>
          /\ gl_program = compute_shdr
          /\ m_mode = 0 => compute_shdr = "raycast_volume_compute"
          /\ m_mode = 1 => compute_shdr = "raycast_volume_compute_iso"
          /\ m_mode = 2 => compute_shdr = "raycast_volume_compute_aggr"
    /\ m_mode \notin {0, 1, 2} =>
          /\ pc \in {"idle", "targets", "fetch", "raycast"}
          /\ gl_program = "none"
          /\ compute_shdr = "none"
          /\ ~InLog("dispatch") /\ ~InLog("draw")
          /\ ret # "true"

\* C18 witness: a frame of mode 3 without a chained renderer, whose volume
\* was fetched, has returned false at the choice of the program.
C18_Witness ==
    /\ Returned("false")
    /\ m_mode = 3
    /\ ~ci
    /\ uv = NoCall
    /\ m_volume_texture # Null

\* C19: when updateVolumeData has returned false (a call of the data source
\* failed or the volume was rejected) Render has returned false, no dispatch
\* and no draw was issued, and blend and depth-test state are as at the entry.
C19_FetchFailureSkipsFrame ==
    uv.status = "false" =>
        /\ Returned("false")
        /\ ~InLog("dispatch") /\ ~InLog("draw")
        /\ gl_blend = gl_entry.blend
        /\ gl_depth_test = gl_entry.depth_test
        /\ gl_blend_func = gl_entry.func

\* C19 witness: Render has returned false for a rejected volume, entered with
\* blending and the depth test on.
C19_Witness ==
    /\ Returned("false")
    /\ uv.status = "false" /\ uv.reached /\ uv.grid = NONE
    /\ gl_entry.blend /\ gl_entry.depth_test
    /\ gl_blend /\ gl_depth_test

\* C20: with no data source connected GetExtents returns false, and
\* updateVolumeData and Render return false without a change of the cached
\* volume state and without a dispatch.
C20_NoDataSource ==
    [][/\ pc = "idle" /\ ext'.status # "none" /\ ~cd_connected' => ext'.status = "false"
       /\ pc = "fetch" /\ ~cd_connected =>
             /\ uv'.status = "false"
             /\ pc' = "idle" /\ ret' = "false"
             /\ UNCHANGED volumeVars
             /\ \A i \in DOMAIN gl_log' : gl_log'[i] # "dispatch"]_vars

\* C20 witness: with a volume cached by an earlier frame, Render and then
\* GetExtents have returned false for a disconnected data source.
C20_Witness ==
    /\ Returned("false")
    /\ ~cd_connected
    /\ uv.status = "false" /\ ~uv.reached
    /\ ext.status = "false"
    /\ m_volume_texture # Null

\* the four steps of the pipeline, as gl_log names them
IsStep(e) == e \in {"targets", "volume", "dispatch", "draw"}

\* the command a is in gl_log at an earlier place than the command b
Before(a, b) == \E i, j \in DOMAIN gl_log : i < j /\ gl_log[i] = a /\ gl_log[j] = b

\* C21: in a Render call that has returned true the render targets were
\* ensured, the volume texture was ensured, the compute pass was dispatched and
\* the composite was drawn, each once and in this order; a dispatch is never
\* issued before the volume check of the frame has succeeded.
C21_StepsOnceInOrder ==
    /\ Returned("true") =>
          SelectSeq(gl_log, IsStep) = <<"targets", "volume", "dispatch", "draw">>
    /\ InLog("dispatch") => Before("volume", "dispatch")

\* C21 witness: a chained Aggregate frame has returned true with all of its
\* commands logged.
C21_Witness ==
    /\ Returned("true")
    /\ m_mode = 2
    /\ ci
    /\ InLog("fbo_disable") /\ InLog("readback") /\ InLog("draw")

\* C22: a memory barrier follows the dispatch; the readback and the draw come
\* only after a dispatch and a barrier behind it, the readback comes before
\* the draw, and a frame that returned true has issued the barrier.
C22_BarrierBeforeReads ==
    /\ \A i \in DOMAIN gl_log :
          gl_log[i] \in {"readback", "draw"} =>
              \E d, b \in 1..(i - 1) :
                  d < b /\ gl_log[d] = "dispatch" /\ gl_log[b] = "barrier"
    /\ InLog("readback") /\ InLog("draw") => Before("readback", "draw")
    /\ ~Before("draw", "readback")
    /\ Returned("true") => Before("dispatch", "barrier")

\* C22 witness: an Aggregate frame is at the draw, the readback done.
C22_Witness ==
    /\ pc = "draw"
    /\ m_mode = 2
    /\ gl_log[Len(gl_log)] = "readback"

\* C23: at the dispatch the uniform valRange holds the pair of the override
\* parameters when the override is on and the cached range of the metadata
\* otherwise; the cached range changes in no step but the fetch of a volume,
\* whatever the override parameters are set to.
C23_ValueRangeOverride ==
    [][/\ pc' = "dispatch" =>
             valRange_uniform' = IF paramOverride'.on
                                 THEN <<paramOverride'.min, paramOverride'.max>>
                                 ELSE valRange'
       /\ pc # "fetch" => valRange' = valRange]_vars

\* C23 witness: a frame with the override on is at the dispatch with a range
\* other than the cached one of the uploaded volume.
C23_Witness ==
    /\ pc = "dispatch"
    /\ paramOverride.on
    /\ m_volume_texture # Null
    /\ valRange = <<0, MaxGeo>>
    /\ valRange_uniform = <<1, MaxGeo + 1>>

\* C24: the dispatch has the group counts (gx, gy, 1) where the gx by gy
\* groups of LocalSize x LocalSize texels cover the render target and no row
\* or column of groups lies outside of it.
C24_GroupsCoverTarget ==
    InLog("dispatch") =>
        /\ groups[3] = 1
        /\ LocalSize * groups[1] >= m_render_target.width
        /\ LocalSize * (groups[1] - 1) < m_render_target.width
        /\ LocalSize * groups[2] >= m_render_target.height
        /\ LocalSize * (groups[2] - 1) < m_render_target.height

\* C24 witness: a render target one texel wider than MaxGroups groups and
\* exactly one group high has been dispatched.
C24_Witness ==
    /\ pc = "composite"
    /\ m_render_target = Size(LocalSize * MaxGroups + 1, LocalSize)
    /\ groups = <<MaxGroups + 1, 1, 1>>

\* C25: whenever updateVolumeData has returned true a volume texture exists
\* and it was uploaded from the volume of the cached identity; at the dispatch
\* texture unit 0 holds that texture.
C25_TextureMatchesIdentity ==
    /\ uv.status = "true" =>
          /\ m_volume_texture # Null
          /\ m_volume_texture.hash = m_volume_datahash
          /\ m_volume_texture.frame = m_frame_id
    /\ pc = "dispatch" => gl_tex[0].t3D = TexName("raycast_volume_texture")

\* C26: when Render has returned, by whatever path, the snapshot framebuffer
\* is not enabled: every fbo_enable of the frame has its fbo_disable.
C26_FboDisabledAtExit ==
    pc = "idle" =>
        /\ ~fbo.enabled
        /\ InLog("fbo_enable") => Before("fbo_enable", "fbo_disable")

\* C27: when Render has returned true the draw buffers are those of the host,
\* and an Integration or Aggregate frame draws with the draw buffers of the
\* host whatever frames came before it.
C27_DrawBuffersRestored ==
    /\ Returned("true") => gl_draw_buffers = HostDrawBuffers
    /\ pc = "draw" /\ m_mode \in {0, 2} => gl_draw_buffers = HostDrawBuffers

====
